---- MODULE Spec2Model ----
(***************************************************************************)
(* A model of src/CitationSleuth.py: PubMedCitationSleuth.search_for_usages *)
(* (one esearch request, then one esummary request per returned id),        *)
(* fetch_article_info (field extraction with the "N/A" sentinel) and        *)
(* format_top_usages_as_markdown (the markdown table).                      *)
(*                                                                         *)
(* Text is modelled by TLA+ strings; "\n" is the line feed.  The remote     *)
(* endpoints are the environment: every blocking requests.get is split      *)
(* into the step that issues the request and the step in which the         *)
(* environment answers (a response of any status, or a transport error).   *)
(***************************************************************************)
EXTENDS Integers, Sequences, FiniteSets, TLC

VARIABLES
    pc,             \* position of the notebook's call sequence (lines 212-215)
    data_source,    \* argument of search_for_usages
    log,            \* outbound requests issued so far, each with its outcome
    article_ids,    \* local of search_for_usages (line 126)
    idx,            \* position of the for loop of line 129 (1-based)
    articles,       \* local of search_for_usages (line 127)
    results,        \* value returned by search_for_usages (line 213)
    exc,            \* exception that ended the call, or "none"
    markdown,       \* value returned by format_top_usages_as_markdown (line 214)
    db,             \* environment: the summary document the remote database holds per id
    faults,         \* environment: non-success detail responses sent so far
    fetch_id,       \* SpecFetch: argument of fetch_article_info
    fetch_response, \* SpecFetch: what requests.get produces
    fetch_out,      \* SpecFetch: outcome of fetch_article_info
    render_in,      \* SpecRender: argument of format_top_usages_as_markdown
    render_out      \* SpecRender: its return value

vars == <<pc, data_source, log, article_ids, idx, articles, results, exc,
          markdown, db, faults, fetch_id, fetch_response, fetch_out,
          render_in, render_out>>

callVars == <<pc, data_source, log, article_ids, idx, articles, results, exc,
              markdown, db, faults>>
fetchVars == <<fetch_id, fetch_response, fetch_out>>
renderVars == <<render_in, render_out>>

-----------------------------------------------------------------------------
(* Bounds of the model *)

MaxIds == 3      \* longest id list an endpoint that honours retmax returns here
MaxExcess == 1   \* ids beyond retmax an endpoint that ignores retmax may return
MaxFaults == 1   \* non-success detail responses the environment sends per call
MaxItems == 4    \* Item elements in a summary document (SpecFetch)
MaxRecords == 2  \* records handed to the renderer (SpecRender)

(* Program constants *)

Retmax == 20     \* "retmax": 20

EsearchUrl == "https://eutils.ncbi.nlm.nih.gov/entrez/eutils/esearch.fcgi"
EsummaryUrl == "https://eutils.ncbi.nlm.nih.gov/entrez/eutils/esummary.fcgi"

None == [none |-> TRUE]

\* A Python name that is not bound yet, and one bound to a value.
Unbound == [bound |-> FALSE]
Bound(v) == [bound |-> TRUE, value |-> v]

-----------------------------------------------------------------------------
(* Values of the environment *)

Ids == {"123", "456"}

Queries == {"medical expenditure panel survey (MEPS)", "machine learning"}

Statuses == {200, 500}

RECURSIVE SeqsUpTo(_, _)
SeqsUpTo(S, n) ==
    IF n = 0 THEN {<<>>}
    ELSE LET shorter == SeqsUpTo(S, n - 1)
         IN  shorter \cup {Append(s, x) : s \in {t \in shorter : Len(t) = n - 1}, x \in S}

\* An endpoint that ignores retmax: more than Retmax ids.
LongIdList(n) == [i \in 1..n |-> IF i % 2 = 1 THEN "123" ELSE "456"]

IdLists ==
    SeqsUpTo(Ids, MaxIds) \cup {LongIdList(Retmax + k) : k \in 1..MaxExcess}

\* JSON bodies of the search response, as Python dicts; NotJson is a body
\* response.json() cannot decode.
NotJson == [notjson |-> TRUE]

SearchBodies ==
    {NotJson, <<>>, [error |-> "API rate limit exceeded"], [esearchresult |-> <<>>]}
    \cup {[esearchresult |-> [idlist |-> l]] : l \in IdLists}

Item(name, text) == [Name |-> name, text |-> text]

FullDoc ==
    << Item("Title", "Study X"), Item("EPubDate", "2021"),
       Item("DOI", "10.1/xyz"), Item("PmcRefCount", "5") >>

PartialDoc == << Item("PubDate", "2020"), Item("Title", "Study Y") >>

EmptyDoc == <<>>

SmallDocs == {FullDoc, PartialDoc, EmptyDoc}

-----------------------------------------------------------------------------
(* search_for_usages, lines 116-126 *)

SearchRequest(term) ==
    [url |-> EsearchUrl, db |-> "pubmed", term |-> term,
     retmode |-> "json", retmax |-> Retmax]

\* dict.get(key, default)
Get(d, key, default) == IF key \in DOMAIN d THEN d[key] ELSE default

GetIdList(search_results) ==
    Get(Get(search_results, "esearchresult", <<>>), "idlist", <<>>)

-----------------------------------------------------------------------------
(* fetch_article_info, lines 146-167 *)

DetailRequest(article_id) ==
    [url |-> EsummaryUrl, db |-> "pubmed", id |-> article_id, retmode |-> "xml"]

\* soup.find('Item', {'Name': name}): the first Item element of the parsed
\* document whose Name attribute is name, or None.
RECURSIVE find(_, _)
find(soup, name) ==
    IF soup = <<>> THEN None
    ELSE IF Head(soup).Name = name THEN Head(soup)
    ELSE find(Tail(soup), name)

TagFound_nonempty(tag) == tag # None /\ tag.text # ""

\* Truth value of the result of soup.find in "... if soup.find(...) else":
\* None is false, a Tag is true whatever its contents.
TagFound(tag) == tag # None

\* soup.find('Item', {'Name': name}).text if soup.find('Item', {'Name': name}) else "N/A"
TextOrNA(soup, name) ==
    IF TagFound(find(soup, name)) THEN find(soup, name).text ELSE "N/A"

PubmedLink(article_id) == "https://pubmed.ncbi.nlm.nih.gov/" \o article_id \o "/"

ParseArticleInfo_doiLink(article_id, soup) ==
    [title |-> TextOrNA(soup, "Title"),
     publication_date |-> TextOrNA(soup, "EPubDate"),
     doi |-> TextOrNA(soup, "DOI"),
     pmc_ref_count |-> TextOrNA(soup, "PmcRefCount"),
     pubmed_link |-> IF find(soup, "DOI") # None
                     THEN "https://doi.org/" \o find(soup, "DOI").text
                     ELSE PubmedLink(article_id)]

\* Lines 153-167: the record built from the parsed response content.
ParseArticleInfo(article_id, soup) ==
    [title |-> TextOrNA(soup, "Title"),
     publication_date |-> TextOrNA(soup, "EPubDate"),
     doi |-> TextOrNA(soup, "DOI"),
     pmc_ref_count |-> TextOrNA(soup, "PmcRefCount"),
     pubmed_link |-> PubmedLink(article_id)]

TransportError == [transport_error |-> TRUE]

\* The whole method, given what requests.get produces: the raise of
\* requests.get propagates (no try/except), any response is parsed whatever
\* its status.
fetch_article_info(article_id, response) ==
    IF response = TransportError
    THEN [raised |-> "ConnectionError"]
    ELSE [raised |-> "none", value |-> ParseArticleInfo(article_id, response.content)]

-----------------------------------------------------------------------------
(* format_top_usages_as_markdown, lines 179-185 *)

TableHeader_noSeparator ==
    "| Title | Publication Date | DOI | PMC Reference Count | PubMed Link |\n"

TableHeader ==
    "| Title | Publication Date | DOI | PMC Reference Count | PubMed Link |\n"
    \o "|-------|-----------------|-----|---------------------|-------------|\n"

Row_bareLink(result) ==
    "| " \o result.title \o " | " \o result.publication_date \o " | "
    \o result.doi \o " | " \o result.pmc_ref_count
    \o " | " \o result.pubmed_link \o " |\n"

\* The f-string of line 183.
Row(result) ==
    "| " \o result.title \o " | " \o result.publication_date \o " | "
    \o result.doi \o " | " \o result.pmc_ref_count
    \o " | [Link](" \o result.pubmed_link \o ") |\n"

\* The for loop of lines 182-183, from position i on.
RECURSIVE AppendRows(_, _, _)
AppendRows(markdown_table, search_results, i) ==
    IF i > Len(search_results) THEN markdown_table
    ELSE AppendRows(markdown_table \o Row(search_results[i]), search_results, i + 1)

format_placeholderRow(search_results) ==
    IF search_results = <<>>
    THEN TableHeader \o "| N/A | N/A | N/A | N/A | N/A |\n"
    ELSE AppendRows(TableHeader, search_results, 1)

format_top_usages_as_markdown(search_results) ==
    AppendRows(TableHeader, search_results, 1)

-----------------------------------------------------------------------------
(* The call sequence of the notebook, lines 212-215:                        *)
(*   results = sleuth.search_for_usages(...)                                *)
(*   markdown = sleuth.format_top_usages_as_markdown(results)               *)

Init ==
    /\ pc = "start"
    /\ data_source \in Queries
    /\ log = <<>>
    /\ article_ids = <<>>
    /\ idx = 1
    /\ articles = <<>>
    /\ results = Unbound
    /\ exc = "none"
    /\ markdown = Unbound
    /\ db \in [Ids -> SmallDocs]
    /\ faults = 0
    /\ fetch_id = "123"
    /\ fetch_response = TransportError
    /\ fetch_out = Unbound
    /\ render_in = <<>>
    /\ render_out = Unbound

Issue(request) == Append(log, [req |-> request, response |-> None])

Answer(response) == [log EXCEPT ![Len(log)].response = response]

Propagate_skip(e) ==
    /\ pc' = "loop"
    /\ idx' = idx + 1
    /\ UNCHANGED <<exc, article_ids, articles, results, markdown>>

\* An exception nothing catches: it leaves search_for_usages and the notebook
\* cell, so nothing after the raising statement runs.
Propagate(e) ==
    /\ pc' = "raised"
    /\ exc' = e
    /\ UNCHANGED <<article_ids, idx, articles, results, markdown>>

\* Lines 116-123: the search request is issued.
SearchRequestIssued ==
    /\ pc = "start"
    /\ log' = Issue(SearchRequest(data_source))
    /\ pc' = "search_wait"
    /\ UNCHANGED <<data_source, article_ids, idx, articles, results, exc,
                   markdown, db, faults>>

\* Line 123: requests.get raises (connection refused, timeout, DNS failure).
SearchTransportError ==
    /\ pc = "search_wait"
    /\ log' = Answer(TransportError)
    /\ Propagate("ConnectionError")
    /\ UNCHANGED <<data_source, db, faults>>

\* Lines 123-127: a response of any status arrives; its body is decoded and
\* the id list taken from it.  The status is never read.
SearchResponse ==
    /\ pc = "search_wait"
    /\ \E status \in Statuses, body \in SearchBodies :
          /\ log' = Answer([status |-> status, body |-> body])
          /\ IF body = NotJson
             THEN Propagate("JSONDecodeError")
             ELSE /\ article_ids' = GetIdList(body)
                  /\ articles' = <<>>
                  /\ idx' = 1
                  /\ pc' = "loop"
                  /\ UNCHANGED <<results, exc, markdown>>
    /\ UNCHANGED <<data_source, db, faults>>

LoopDetailRequest_reversed ==
    /\ pc = "loop"
    /\ idx <= Len(article_ids)
    /\ log' = Issue(DetailRequest(article_ids[Len(article_ids) + 1 - idx]))
    /\ pc' = "detail_wait"
    /\ UNCHANGED <<data_source, article_ids, idx, articles, results, exc,
                   markdown, db, faults>>

\* Lines 129-130 and 146-152: the next id of the loop, its detail request.
LoopDetailRequest ==
    /\ pc = "loop"
    /\ idx <= Len(article_ids)
    /\ log' = Issue(DetailRequest(article_ids[idx]))
    /\ pc' = "detail_wait"
    /\ UNCHANGED <<data_source, article_ids, idx, articles, results, exc,
                   markdown, db, faults>>

\* What the detail endpoint may answer to the request in flight: a transport
\* error, the document the database holds, or (MaxFaults times at most) a
\* non-success response whose body holds no Item.
DetailAnswers ==
    {TransportError, [status |-> 200, content |-> db[log[Len(log)].req.id]]}
    \cup (IF faults < MaxFaults THEN {[status |-> 500, content |-> EmptyDoc]} ELSE {})

Truthy_hasTitle(article_info) == article_info.title # "N/A"

\* Truth value of a dict (line 131): false only when it has no key.
Truthy(article_info) == DOMAIN article_info # {}

\* Lines 130-132 and 152-167: fetch_article_info ends; its record is appended
\* or its exception leaves search_for_usages.
DetailAnswered ==
    /\ pc = "detail_wait"
    /\ \E response \in DetailAnswers :
          LET out == fetch_article_info(article_ids[idx], response) IN
          /\ log' = Answer(response)
          /\ faults' = IF response # TransportError /\ response.status # 200
                       THEN faults + 1 ELSE faults
          /\ IF out.raised # "none"
             THEN Propagate(out.raised)
             ELSE /\ articles' = IF Truthy(out.value)
                                 THEN Append(articles, out.value)
                                 ELSE articles
                  /\ idx' = idx + 1
                  /\ pc' = "loop"
                  /\ UNCHANGED <<article_ids, results, exc, markdown>>
    /\ UNCHANGED <<data_source, db>>

\* Line 134 and the assignment of line 213.
Return ==
    /\ pc = "loop"
    /\ idx > Len(article_ids)
    /\ results' = Bound(articles)
    /\ pc' = "returned"
    /\ UNCHANGED <<data_source, log, article_ids, idx, articles, exc,
                   markdown, db, faults>>

\* Line 214.
Format ==
    /\ pc = "returned"
    /\ markdown' = Bound(format_top_usages_as_markdown(results.value))
    /\ pc' = "formatted"
    /\ UNCHANGED <<data_source, log, article_ids, idx, articles, results, exc,
                   db, faults>>

Next ==
    \/ (SearchRequestIssued /\ UNCHANGED <<fetchVars, renderVars>>)
    \/ (SearchTransportError /\ UNCHANGED <<fetchVars, renderVars>>)
    \/ (SearchResponse /\ UNCHANGED <<fetchVars, renderVars>>)
    \/ (LoopDetailRequest /\ UNCHANGED <<fetchVars, renderVars>>)
    \/ (DetailAnswered /\ UNCHANGED <<fetchVars, renderVars>>)
    \/ (Return /\ UNCHANGED <<fetchVars, renderVars>>)
    \/ (Format /\ UNCHANGED <<fetchVars, renderVars>>)

Spec == Init /\ [][Next]_vars

-----------------------------------------------------------------------------
(* fetch_article_info on its own: every id, every outcome of requests.get   *)

FetchItems ==
    { Item("Title", "Study X"), Item("Title", ""), Item("EPubDate", "2021"),
      Item("DOI", "10.1/xyz"), Item("PmcRefCount", "5"),
      Item("PmcRefCount", "N/A"), Item("PubDate", "2020") }

Docs == SeqsUpTo(FetchItems, MaxItems)

DetailResponses == {TransportError} \cup [status : Statuses, content : Docs]

\* The variables of the notebook's call sequence, before it starts.
CallNotStarted ==
    /\ pc = "start"
    /\ data_source = "machine learning"
    /\ log = <<>>
    /\ article_ids = <<>>
    /\ idx = 1
    /\ articles = <<>>
    /\ results = Unbound
    /\ exc = "none"
    /\ markdown = Unbound
    /\ db = [i \in Ids |-> EmptyDoc]
    /\ faults = 0

InitFetch ==
    /\ CallNotStarted
    /\ fetch_id \in Ids
    /\ fetch_response \in DetailResponses
    /\ fetch_out = Unbound
    /\ render_in = <<>>
    /\ render_out = Unbound

FetchCall ==
    /\ fetch_out = Unbound
    /\ fetch_out' = Bound(fetch_article_info(fetch_id, fetch_response))
    /\ UNCHANGED <<fetch_id, fetch_response>>

NextFetch == FetchCall /\ UNCHANGED <<callVars, renderVars>>

SpecFetch == InitFetch /\ [][NextFetch]_vars

-----------------------------------------------------------------------------
(* format_top_usages_as_markdown on its own: every record sequence          *)

RenderRecords ==
    [title : {"Study X", "N/A", "Line1\nLine2"},
     publication_date : {"2021", "N/A"},
     doi : {"10.1/xyz"},
     pmc_ref_count : {"5"},
     pubmed_link : {PubmedLink(i) : i \in Ids}]

InitRender ==
    /\ CallNotStarted
    /\ fetch_id = "123"
    /\ fetch_response = TransportError
    /\ fetch_out = Unbound
    /\ render_in \in SeqsUpTo(RenderRecords, MaxRecords)
    /\ render_out = Unbound

RenderCall ==
    /\ render_out = Unbound
    /\ render_out' = Bound(format_top_usages_as_markdown(render_in))
    /\ UNCHANGED render_in

NextRender == RenderCall /\ UNCHANGED <<callVars, fetchVars>>

SpecRender == InitRender /\ [][NextRender]_vars

-----------------------------------------------------------------------------
(* Vocabulary of the properties *)

\* The lines of a text: the pieces between line feeds, without the empty
\* piece after a final line feed (str.splitlines).
LineFeeds(s) == {k \in 1..Len(s) : SubSeq(s, k, k) = "\n"}

\* Position of the j-th line feed of s; 0 for j = 0.
LineFeedAt(s, j) ==
    IF j = 0 THEN 0
    ELSE CHOOSE k \in LineFeeds(s) :
            Cardinality({m \in LineFeeds(s) : m <= k}) = j

Lines(s) ==
    LET n == Cardinality(LineFeeds(s))
        last == IF Len(s) > 0 /\ Len(s) \notin LineFeeds(s) THEN 1 ELSE 0
    IN  [j \in 1..(n + last) |->
            SubSeq(s, LineFeedAt(s, j - 1) + 1,
                   IF j <= n THEN LineFeedAt(s, j) - 1 ELSE Len(s))]

Contains(s, sub) ==
    \E k \in 0..(Len(s) - Len(sub)) : SubSeq(s, k + 1, k + Len(sub)) = sub

HasLineFeed(s) == \E k \in 1..Len(s) : SubSeq(s, k, k) = "\n"

ColumnLine == "| Title | Publication Date | DOI | PMC Reference Count | PubMed Link |"

SeparatorLine == "|-------|-----------------|-----|---------------------|-------------|"

\* `| title | publication_date | doi | pmc_ref_count | [Link](pubmed_link) |`
RowText(r) ==
    "| " \o r.title \o " | " \o r.publication_date \o " | " \o r.doi \o " | "
    \o r.pmc_ref_count \o " | [Link](" \o r.pubmed_link \o ") |"

RECURSIVE RowsText(_)
RowsText(records) ==
    IF records = <<>> THEN ""
    ELSE RowText(Head(records)) \o "\n" \o RowsText(Tail(records))

StudyX ==
    [title |-> "Study X", publication_date |-> "2021", doi |-> "10.1/xyz",
     pmc_ref_count |-> "5", pubmed_link |-> "https://pubmed.ncbi.nlm.nih.gov/123/"]

StudyXRow == "| Study X | 2021 | 10.1/xyz | 5 | [Link](https://pubmed.ncbi.nlm.nih.gov/123/) |"

\* The identifier list a decoded search response carries (none: empty).
IdListSent(body) ==
    IF "esearchresult" \in DOMAIN body /\ "idlist" \in DOMAIN body.esearchresult
    THEN body.esearchresult.idlist
    ELSE <<>>

Completed == pc \in {"returned", "formatted"}

IsResponse(r) == r # None /\ r # TransportError

\* The search response has been decoded: the search step yielded its list.
SearchStepDone ==
    /\ Len(log) >= 1
    /\ IsResponse(log[1].response)
    /\ log[1].response.body # NotJson

IsDetail(entry) == entry.req.url = EsummaryUrl

\* First position of an Item named name in a document, 0 when there is none.
FirstNamed(content, name) ==
    IF \E k \in 1..Len(content) : content[k].Name = name
    THEN CHOOSE k \in 1..Len(content) :
            /\ content[k].Name = name
            /\ \A j \in 1..(k - 1) : content[j].Name # name
    ELSE 0

FieldOf ==
    [title |-> "Title", publication_date |-> "EPubDate", doi |-> "DOI",
     pmc_ref_count |-> "PmcRefCount"]

-----------------------------------------------------------------------------
(* Properties *)

C2_NonSuccessIsFatal ==
    Completed =>
        \A i \in 1..Len(log) : log[i].response.status = 200

\* C3: for a detail response with any subset of Title, EPubDate, DOI,
\* PmcRefCount missing, fetch_article_info does not raise and returns a
\* record with all five attributes, "N/A" for each missing field and the
\* field's text for each present one.
C3_MissingFieldsBecomeNA ==
    (fetch_out # Unbound /\ fetch_response # TransportError) =>
        /\ fetch_out.value.raised = "none"
        /\ DOMAIN fetch_out.value.value =
              {"title", "publication_date", "doi", "pmc_ref_count", "pubmed_link"}
        /\ \A attr \in DOMAIN FieldOf :
              LET k == FirstNamed(fetch_response.content, FieldOf[attr]) IN
              fetch_out.value.value[attr] =
                  IF k = 0 THEN "N/A" ELSE fetch_response.content[k].text

C3_Witness ==
    /\ fetch_out # Unbound
    /\ fetch_response # TransportError
    /\ fetch_response.content = <<Item("PubDate", "2020"), Item("Title", ""), Item("DOI", "10.1/xyz")>>
    /\ fetch_out.value.value.publication_date = "N/A"
    /\ fetch_out.value.value.title = ""

\* C4: a transport failure on the search request or on any detail request
\* ends the call with the failure: the failed request is the last one issued
\* (no retry, no skip, no further request) and nothing is returned.
C4_TransportFailurePropagates ==
    \A i \in 1..Len(log) :
        log[i].response = TransportError =>
            /\ i = Len(log)
            /\ pc = "raised"
            /\ exc = "ConnectionError"
            /\ results = Unbound
            /\ markdown = Unbound

C4_Witness ==
    /\ pc = "raised"
    /\ Len(log) = 3
    /\ Len(article_ids) = 3
    /\ log[3].response = TransportError
    /\ Len(articles) = 1

\* C5: the rendered table is the column-name line, the separator line and
\* then exactly one row per record, in input order, each row being
\* `| title | publication_date | doi | pmc_ref_count | [Link](pubmed_link) |`.
C5_HeaderThenOneRowPerRecord ==
    render_out # Unbound =>
        render_out.value =
            ColumnLine \o "\n" \o SeparatorLine \o "\n" \o RowsText(render_in)

C5_Witness ==
    /\ render_out # Unbound
    /\ Len(render_in) = 2
    /\ render_in[1].title = "N/A"
    /\ render_in[2] = StudyX

\* C6 as stated: for a single record its data row is the second line of the
\* table; for the Study X record the second line contains StudyXRow.
C6_RowIsSecondLine ==
    (render_out # Unbound /\ Len(render_in) = 1) =>
        /\ Len(Lines(render_out.value)) >= 2
        /\ render_in[1] = StudyX => Contains(Lines(render_out.value)[2], StudyXRow)
        /\ Lines(render_out.value)[2] = RowText(render_in[1])

\* C6 as amended: the data row of a single record comes after the two header
\* lines: for the Study X record the third line contains StudyXRow, and for
\* every single record whose texts hold no line feed the table has three
\* lines, the third being the record's row.
C6_RowIsThirdLine ==
    (render_out # Unbound /\ Len(render_in) = 1) =>
        LET r == render_in[1]
            lines == Lines(render_out.value)
        IN  /\ Len(lines) >= 3
            /\ r = StudyX => Contains(lines[3], StudyXRow)
            /\ ~HasLineFeed(RowText(r)) => (Len(lines) = 3 /\ lines[3] = RowText(r))

C6_Witness ==
    /\ render_out # Unbound
    /\ render_in = <<StudyX>>
    /\ Len(Lines(render_out.value)) = 3

\* C7: when the search step yields zero identifiers, no detail request is
\* issued, nothing is raised, the call returns the empty sequence and the
\* table rendered from it is exactly the column-name line and the separator
\* line.
C7_EmptySearchGivesHeaderOnly ==
    (SearchStepDone /\ IdListSent(log[1].response.body) = <<>>) =>
        /\ Len(log) = 1
        /\ pc \in {"loop", "returned", "formatted"}
        /\ exc = "none"
        /\ Completed => results = Bound(<<>>)
        /\ pc = "formatted" =>
              /\ Lines(markdown.value) = <<ColumnLine, SeparatorLine>>
              /\ markdown.value = ColumnLine \o "\n" \o SeparatorLine \o "\n"

C7_Witness ==
    /\ pc = "formatted"
    /\ log[1].response.body = [esearchresult |-> [idlist |-> <<>>]]
    /\ results = Bound(<<>>)
    /\ Len(Lines(markdown.value)) = 2

\* C8: the link of the record built for an identifier is
\* "https://pubmed.ncbi.nlm.nih.gov/" + id + "/" whatever the detail response
\* holds, so any two responses give the same link for the same identifier.
C8_LinkFromIdOnly ==
    (fetch_out # Unbound /\ fetch_response # TransportError) =>
        /\ fetch_out.value.value.pubmed_link =
              "https://pubmed.ncbi.nlm.nih.gov/" \o fetch_id \o "/"
        /\ fetch_id = "123" =>
              fetch_out.value.value.pubmed_link = "https://pubmed.ncbi.nlm.nih.gov/123/"

C8_Witness ==
    /\ fetch_out # Unbound
    /\ fetch_id = "123"
    /\ fetch_response # TransportError
    /\ fetch_response.status = 500
    /\ fetch_response.content = <<Item("DOI", "10.1/xyz")>>
    /\ fetch_out.value.value.pubmed_link = "https://pubmed.ncbi.nlm.nih.gov/123/"

\* C9: whatever the search endpoint answers, at most 20 detail requests are
\* issued and at most 20 records returned.
C9_AtMostRetmaxDetailRequests ==
    /\ Cardinality({i \in 1..Len(log) : IsDetail(log[i])}) <= Retmax
    /\ Completed => Len(results.value) <= Retmax

\* C10: the requests are one search request, then one detail request per
\* identifier in identifier order, each issued only after the previous
\* request was answered; a completed call has issued 1 + N requests.
C10_OneSearchThenDetailsInOrder ==
    /\ \A i \in 1..(Len(log) - 1) : IsResponse(log[i].response)
    /\ Len(log) >= 1 => log[1].req = SearchRequest(data_source)
    /\ Len(log) >= 2 =>
          /\ SearchStepDone
          /\ Len(log) <= 1 + Len(IdListSent(log[1].response.body))
          /\ \A i \in 2..Len(log) :
                log[i].req = DetailRequest(IdListSent(log[1].response.body)[i - 1])
    /\ Completed =>
          /\ SearchStepDone
          /\ Len(log) = 1 + Len(IdListSent(log[1].response.body))

C10_Witness ==
    /\ pc = "returned"
    /\ Len(log) = 4
    /\ log[2].req.id # log[3].req.id
    /\ \A i \in 1..4 : IsResponse(log[i].response)

====
